---- MODULE Spec2Model ----
(***************************************************************************)
(* urlmon.py: a session based URL monitor.                                 *)
(*                                                                         *)
(* The process acquires one RequestsSession (new_session), resolves the    *)
(* list of URLs from the arguments or from urls.txt (main,                 *)
(* read_url_file), then loops forever: one session.get per list entry,     *)
(* one log record per result, then sleep(SLEEP_TIME).  The top-level       *)
(* try/except/finally of the __main__ block ends the process.              *)
(*                                                                         *)
(* Strings are sequences of one-character strings, so that str.strip and   *)
(* the line iteration of a text file are computed, not assumed.            *)
(***************************************************************************)
EXTENDS Integers, Sequences, FiniteSets, TLC

VARIABLES
    argv,         \* sys.argv[1:], the positional arguments
    file,         \* urls.txt in the working directory: [exists, text]
    retry_total,  \* Retry(total=retries, read=retries, connect=retries)
    URL_LIST,     \* main's URL_LIST
    pc,           \* "resolve", "probe", "get", "sleep", "raised", "exited"
    i,            \* main's loop index (0-based, as in range(len(URL_LIST)))
    cycle,        \* number of completed sleep(SLEEP_TIME) calls
    answers,      \* what the server did on each attempt of the current get
    result,       \* what session.get surfaced to main for the current probe
    probed,       \* indices for which session.get was called in this cycle
    log,          \* records emitted by logger at level INFO and above
    exc,          \* the exception propagating out of main, or "none"
    intr_at,      \* pc at which the keyboard interrupt arrived, or "none"
    closed,       \* RequestsSession.close() has been executed
    exit_code     \* process exit code, -1 while running

vars == <<argv, file, retry_total, URL_LIST, pc, i, cycle, answers, result,
          probed, log, exc, intr_at, closed, exit_code>>

----------------------------------------------------------------------------
(* Bounds of the model *)

MaxArgs == 1
MaxFileLen == 3
MaxRetries == 1
MaxCycles == 1

(* Program constants *)

RETRIES == 0
RETRY_FOR_STATUS_CODES == {500, 502, 503, 504}

(* Characters of the modelled strings: "a" stands for any character that   *)
(* is not whitespace.                                                      *)
Chars == {"a", " ", "\n"}
Whitespace == {" ", "\n"}

(* Status codes a server answers with in the model. *)
Statuses == {200, 404, 503}

RECURSIVE StringsUpTo(_)
StringsUpTo(n) ==
    IF n = 0 THEN {<<>>}
    ELSE LET shorter == StringsUpTo(n - 1)
         IN  shorter \cup {Append(s, c) : s \in shorter, c \in Chars}

RECURSIVE ListsUpTo(_, _)
ListsUpTo(S, n) ==
    IF n = 0 THEN {<<>>}
    ELSE LET shorter == ListsUpTo(S, n - 1)
         IN  shorter \cup {Append(l, s) : l \in shorter, s \in S}

----------------------------------------------------------------------------
(* str.strip(): leading and trailing whitespace removed *)

RECURSIVE LStrip(_)
LStrip(s) ==
    IF s = <<>> THEN <<>>
    ELSE IF Head(s) \in Whitespace THEN LStrip(Tail(s))
    ELSE s

RECURSIVE RStrip(_)
RStrip(s) ==
    IF s = <<>> THEN <<>>
    ELSE IF s[Len(s)] \in Whitespace THEN RStrip(SubSeq(s, 1, Len(s) - 1))
    ELSE s

Strip(s) == RStrip(LStrip(s))

(* `for line in url_file`: the lines of the text, each with its newline;   *)
(* a last line without newline is a line too.                              *)
RECURSIVE SplitLines(_)
SplitLines(s) ==
    IF s = <<>> THEN <<>>
    ELSE LET nl == {k \in 1..Len(s) : s[k] = "\n"}
         IN  IF nl = {} THEN <<s>>
             ELSE LET k == CHOOSE m \in nl : \A o \in nl : m <= o
                  IN  <<SubSeq(s, 1, k)>> \o SplitLines(SubSeq(s, k + 1, Len(s)))

----------------------------------------------------------------------------
(* Log records.  Elapsed times and timestamps are not modelled. *)

ProbeRec(kind, idx, url, status) ==
    [kind |-> kind, idx |-> idx, url |-> url, status |-> status]

LifeRec(kind) == [kind |-> kind, idx |-> -1, url |-> <<>>, status |-> 0]

(* Results of session.get as main sees them *)

Pending == [kind |-> "pending", status |-> 0]
Response(s) == [kind |-> "response", status |-> s]
Raised(e) == [kind |-> e, status |-> 0]

(* RequestsSession.get: `return self.session.get(url)`, the response of    *)
(* the wrapped session handed on; an exception passes through.             *)

SessionGetNoReturn(r) ==
    IF r.kind = "response" THEN [kind |-> "None", status |-> 0] ELSE r

SessionGet(r) == r

(* main, line 35: URL_LIST = sys.argv[1:] *)

UrlsFromArgsStripped(args) == [k \in 1..Len(args) |-> Strip(args[k])]

UrlsFromArgs(args) == args

(* new_session up to its yield: the session is constructed and handed to   *)
(* the with statement; close() has not run.                                *)

NewSessionEnterClosed == TRUE

NewSessionEnter == FALSE

(* One attempt of the adapter: the server's status, or no response *)

Answer(s) == [ok |-> TRUE, status |-> s]
ConnFail == [ok |-> FALSE, status |-> 0]

----------------------------------------------------------------------------
(* read_url_file: exits when urls.txt is absent, otherwise one entry per   *)
(* line of the file, stripped.                                             *)

ReadUrlFileNoExit(f) ==
    LET lines == SplitLines(f.text)
    IN  [exits |-> FALSE,
         urls |-> [k \in 1..Len(lines) |-> Strip(lines[k])]]

ReadUrlFile(f) ==
    IF ~f.exists THEN [exits |-> TRUE, urls |-> <<>>]
    ELSE LET lines == SplitLines(f.text)
         IN  [exits |-> FALSE,
              urls |-> [k \in 1..Len(lines) |-> Strip(lines[k])]]

(* The body of main's for loop after session.get: the except clause and    *)
(* the classification of the response.  An exception other than            *)
(* requests.exceptions.ConnectionError logs nothing here.                  *)

ProbeLogDouble(idx, url, res) ==
    IF res.kind = "ConnectionError"
        THEN <<ProbeRec("conn_error", idx, url, 0)>>
    ELSE IF res.kind = "response"
        THEN IF res.status = 200
                 THEN <<ProbeRec("up", idx, url, 0)>>
                 ELSE <<ProbeRec("not_ok", idx, url, res.status),
                        ProbeRec("might_be_down", idx, url, 0)>>
    ELSE IF res.kind = "None"
        THEN <<ProbeRec("might_be_down", idx, url, 0)>>
    ELSE <<>>

ProbeLog(idx, url, res) ==
    IF res.kind = "ConnectionError"
        THEN <<ProbeRec("conn_error", idx, url, 0)>>
    ELSE IF res.kind = "response"
        THEN IF res.status = 200
                 THEN <<ProbeRec("up", idx, url, 0)>>
                 ELSE <<ProbeRec("not_ok", idx, url, res.status)>>
    ELSE IF res.kind = "None"
        THEN <<ProbeRec("might_be_down", idx, url, 0)>>
    ELSE <<>>

(* `except requests.exceptions.ConnectionError`: what main handles itself *)

CaughtByMainNoExcept(res) == res.kind \in {"response", "None"}

CaughtByMain(res) == res.kind \in {"response", "None", "ConnectionError"}

(* Control after the body of the for loop for index idx: the next index,   *)
(* or sleep(SLEEP_TIME) after the last one.                                *)

AfterProbeBreak(idx, res) ==
    IF res.kind = "ConnectionError" THEN [pc |-> "sleep", i |-> idx]
    ELSE IF idx + 1 < Len(URL_LIST) THEN [pc |-> "probe", i |-> idx + 1]
    ELSE [pc |-> "sleep", i |-> idx]

AfterProbeNoSleep(idx, res) ==
    IF idx + 1 < Len(URL_LIST) THEN [pc |-> "probe", i |-> idx + 1]
    ELSE [pc |-> "probe", i |-> 0]

AfterProbe(idx, res) ==
    IF idx + 1 < Len(URL_LIST) THEN [pc |-> "probe", i |-> idx + 1]
    ELSE [pc |-> "sleep", i |-> idx]

(* new_session after its yield: session.close() runs only when the body of *)
(* the with statement ended without an exception.                          *)

NewSessionExit(wasClosed, e) == IF e = "none" THEN TRUE ELSE wasClosed

(* The except KeyboardInterrupt and finally clauses of the __main__ block *)

TopLevelLogNoExcept(e) == <<LifeRec("exiting")>>

TopLevelLog(e) ==
    IF e = "KeyboardInterrupt"
        THEN <<LifeRec("interrupt"), LifeRec("exiting")>>
        ELSE <<LifeRec("exiting")>>

(* Exit code of the process: sys.exit(0) in the finally clause replaces    *)
(* whatever was propagating.                                               *)

FinallyExitCodeNoExit(e) ==
    IF e \in {"SystemExit", "KeyboardInterrupt"} THEN 0 ELSE 1

FinallyExitCode(e) == 0

----------------------------------------------------------------------------
(* urls.txt: absent, or any text of at most MaxFileLen characters *)
NoFile == [exists |-> FALSE, text |-> <<>>]

Files ==
    {NoFile} \cup {[exists |-> TRUE, text |-> t] : t \in StringsUpTo(MaxFileLen)}

(* Positional arguments: a plain string and one that is only whitespace.   *)
(* When arguments are given urls.txt is absent or holds one line.          *)
ArgStrings == {<<"a">>, <<" ">>}

FilesBesideArgs == {NoFile, [exists |-> TRUE, text |-> <<"a", "\n">>]}

Init ==
    /\ \/ /\ argv = <<>>
          /\ file \in Files
       \/ /\ argv \in ListsUpTo(ArgStrings, MaxArgs) \ {<<>>}
          /\ file \in FilesBesideArgs
    /\ retry_total \in RETRIES..MaxRetries
    /\ URL_LIST = <<>>
    /\ pc = "resolve"
    /\ i = 0
    /\ cycle = 0
    /\ answers = <<>>
    /\ result = Pending
    /\ probed = <<>>
    /\ log = <<>>
    /\ exc = "none"
    /\ intr_at = "none"
    /\ closed = NewSessionEnter
    /\ exit_code = -1

(* main, lines 34-41, and the entry into `while True` *)
Resolve ==
    /\ pc = "resolve"
    /\ IF Len(argv) > 0
         THEN /\ URL_LIST' = UrlsFromArgs(argv)
              /\ log' = Append(log, LifeRec("using_arguments"))
              /\ pc' = "probe"
              /\ exc' = exc
         ELSE LET r == ReadUrlFile(file)
              IN  IF r.exits
                    THEN /\ log' = log \o <<LifeRec("no_arguments"),
                                            LifeRec("not_found")>>
                         /\ exc' = "SystemExit"
                         /\ pc' = "raised"
                         /\ URL_LIST' = URL_LIST
                    ELSE /\ URL_LIST' = r.urls
                         /\ log' = log \o <<LifeRec("no_arguments"),
                                            LifeRec("using_file")>>
                         /\ pc' = IF Len(r.urls) > 0 THEN "probe" ELSE "sleep"
                         /\ exc' = exc
    /\ UNCHANGED <<argv, file, retry_total, i, cycle, answers, result, probed,
                   intr_at, closed, exit_code>>

(* main, lines 46-48: the call of session.get(URL_LIST[i]) *)
StartGet ==
    /\ pc = "probe"
    /\ pc' = "get"
    /\ probed' = Append(probed, i)
    /\ answers' = <<>>
    /\ result' = Pending
    /\ UNCHANGED <<argv, file, retry_total, URL_LIST, i, cycle, log, exc,
                   intr_at, closed, exit_code>>

(* The rest of the loop body once session.get has returned or raised *)
Surface(res) ==
    /\ result' = res
    /\ IF CaughtByMain(res)
         THEN /\ log' = log \o ProbeLog(i, URL_LIST[i + 1], res)
              /\ pc' = AfterProbe(i, res).pc
              /\ i' = AfterProbe(i, res).i
              /\ exc' = exc
         ELSE /\ exc' = res.kind
              /\ pc' = "raised"
              /\ UNCHANGED <<log, i>>
    /\ UNCHANGED <<argv, file, retry_total, URL_LIST, cycle, probed, intr_at,
                   closed, exit_code>>

(* requests refuses a URL without a scheme before anything is sent *)
GetInvalidURL ==
    /\ pc = "get"
    /\ Strip(URL_LIST[i + 1]) = <<>>
    /\ answers' = answers
    /\ Surface(SessionGet(Raised("MissingSchema")))

(* The server answers with a status that is not in status_forcelist *)
GetReturns(s) ==
    /\ pc = "get"
    /\ Strip(URL_LIST[i + 1]) # <<>>
    /\ s \notin RETRY_FOR_STATUS_CODES
    /\ answers' = answers
    /\ Surface(SessionGet(Response(s)))

(* An attempt fails (status in status_forcelist, or no connection) and the *)
(* Retry object still has retries left: the adapter tries again.           *)
GetRetries(a) ==
    /\ pc = "get"
    /\ Strip(URL_LIST[i + 1]) # <<>>
    /\ a.ok => a.status \in RETRY_FOR_STATUS_CODES
    /\ Len(answers) < retry_total
    /\ answers' = Append(answers, a)
    /\ UNCHANGED <<argv, file, retry_total, URL_LIST, pc, i, cycle, result,
                   probed, log, exc, intr_at, closed, exit_code>>

(* An attempt fails and the Retry object is exhausted: MaxRetryError,      *)
(* which requests raises as RetryError (too many error responses) or as    *)
(* ConnectionError.                                                        *)
GetExhausted(a) ==
    /\ pc = "get"
    /\ Strip(URL_LIST[i + 1]) # <<>>
    /\ a.ok => a.status \in RETRY_FOR_STATUS_CODES
    /\ Len(answers) >= retry_total
    /\ answers' = Append(answers, a)
    /\ Surface(SessionGet(IF a.ok THEN Raised("RetryError")
                                ELSE Raised("ConnectionError")))

(* Any other failure of the request (too many redirects, a broken body,    *)
(* a URL requests cannot parse): a RequestException of another class.      *)
GetFails ==
    /\ pc = "get"
    /\ Strip(URL_LIST[i + 1]) # <<>>
    /\ answers' = answers
    /\ Surface(SessionGet(Raised("RequestException")))

SleepReread ==
    /\ pc = "sleep"
    /\ cycle < MaxCycles
    /\ cycle' = cycle + 1
    /\ probed' = <<>>
    /\ i' = 0
    /\ URL_LIST' = ReadUrlFileNoExit(file).urls
    /\ pc' = IF Len(URL_LIST') > 0 THEN "probe" ELSE "sleep"
    /\ UNCHANGED <<argv, file, retry_total, answers, result, log,
                   exc, intr_at, closed, exit_code>>

SleepNoReset ==
    /\ pc = "sleep"
    /\ cycle < MaxCycles
    /\ cycle' = cycle + 1
    /\ probed' = <<>>
    /\ i' = i
    /\ pc' = IF Len(URL_LIST) > 0 THEN "probe" ELSE "sleep"
    /\ UNCHANGED <<argv, file, retry_total, URL_LIST, answers, result, log,
                   exc, intr_at, closed, exit_code>>

(* main, line 64, and the return to the top of `while True` *)
Sleep ==
    /\ pc = "sleep"
    /\ cycle < MaxCycles
    /\ cycle' = cycle + 1
    /\ probed' = <<>>
    /\ i' = 0
    /\ pc' = IF Len(URL_LIST) > 0 THEN "probe" ELSE "sleep"
    /\ UNCHANGED <<argv, file, retry_total, URL_LIST, answers, result, log,
                   exc, intr_at, closed, exit_code>>

(* SIGINT: KeyboardInterrupt raised wherever main is *)
KeyboardInterrupt ==
    /\ pc \in {"resolve", "probe", "get", "sleep"}
    /\ exc' = "KeyboardInterrupt"
    /\ intr_at' = pc
    /\ pc' = "raised"
    /\ UNCHANGED <<argv, file, retry_total, URL_LIST, i, cycle, answers,
                   result, probed, log, closed, exit_code>>

(* The __main__ block once an exception leaves main: the with statement    *)
(* throws it into new_session, then except KeyboardInterrupt and finally.  *)
MainBlockExit ==
    /\ pc = "raised"
    /\ closed' = NewSessionExit(closed, exc)
    /\ log' = log \o TopLevelLog(exc)
    /\ exit_code' = FinallyExitCode(exc)
    /\ pc' = "exited"
    /\ UNCHANGED <<argv, file, retry_total, URL_LIST, i, cycle, answers,
                   result, probed, exc, intr_at>>

Next ==
    \/ Resolve
    \/ StartGet
    \/ GetInvalidURL
    \/ \E s \in Statuses : GetReturns(s)
    \/ \E a \in {Answer(s) : s \in Statuses} \cup {ConnFail} : GetRetries(a)
    \/ \E a \in {Answer(s) : s \in Statuses} \cup {ConnFail} : GetExhausted(a)
    \/ GetFails
    \/ Sleep
    \/ KeyboardInterrupt
    \/ MainBlockExit

Spec == Init /\ [][Next]_vars

(* A get in progress makes a step: the attempt is answered, fails, or the  *)
(* request fails otherwise.                                                *)
GetProgress ==
    \/ GetInvalidURL
    \/ \E s \in Statuses : GetReturns(s)
    \/ \E a \in {Answer(s) : s \in Statuses} \cup {ConnFail} : GetRetries(a)
    \/ \E a \in {Answer(s) : s \in Statuses} \cup {ConnFail} : GetExhausted(a)
    \/ GetFails

(* The interpreter runs main's next statement, every get eventually        *)
(* returns or raises, and every sleep(SLEEP_TIME) returns.  The keyboard   *)
(* interrupt is not forced.                                                *)
FairSpec ==
    /\ Spec
    /\ WF_vars(Resolve)
    /\ WF_vars(StartGet)
    /\ WF_vars(GetProgress)
    /\ WF_vars(Sleep)
    /\ WF_vars(MainBlockExit)


----------------------------------------------------------------------------
(* The indices 0 .. n-1 in increasing order *)
Indices(n) == [k \in 1..n |-> k - 1]

(* The resolved list as read_url_file is described: the stripped lines of  *)
(* the file that are not empty, in file order.                             *)
NonEmpty(s) == s # <<>>

StrippedLines(f) ==
    LET lines == SplitLines(f.text)
    IN  [k \in 1..Len(lines) |-> Strip(lines[k])]

NonBlankLines(f) == SelectSeq(StrippedLines(f), NonEmpty)

(* C1: for a non-empty target list, the indices probed in a cycle are      *)
(* 0, 1, 2, ... in increasing order, each once, the loop index is the next *)
(* one to probe, and the sleep starts only when every index of the list    *)
(* has been probed.                                                        *)
C1_EachUrlOncePerCycleInOrder ==
    Len(URL_LIST) > 0 =>
        /\ Len(probed) <= Len(URL_LIST)
        /\ probed = Indices(Len(probed))
        /\ pc = "probe" => Len(probed) = i
        /\ pc = "get" => Len(probed) = i + 1
        /\ pc = "sleep" => probed = Indices(Len(URL_LIST))

C1_Witness ==
    /\ pc = "sleep"
    /\ cycle = 1
    /\ probed = <<0, 1>>

(* C2: a get that ends in a connection error at index i appends exactly    *)
(* one error record naming i and URL_LIST[i], raises nothing, and control  *)
(* goes on to index i + 1 of the same cycle, or to the sleep when i was    *)
(* the last index.                                                         *)
C2_ConnectionErrorContinues ==
    [][(pc = "get" /\ result = Pending /\ result' = Raised("ConnectionError"))
        => /\ log' = Append(log, ProbeRec("conn_error", i, URL_LIST[i + 1], 0))
           /\ exc' = "none"
           /\ cycle' = cycle
           /\ probed' = probed
           /\ IF i + 1 < Len(URL_LIST)
                THEN pc' = "probe" /\ i' = i + 1
                ELSE pc' = "sleep"]_vars

C2_Witness ==
    /\ cycle = 0
    /\ probed = <<0, 1>>
    /\ \E k \in 1..Len(log) : log[k].kind = "conn_error" /\ log[k].idx = 0

(* C3: once the loop is entered only a keyboard interrupt ends it: no      *)
(* exception other than KeyboardInterrupt (and the SystemExit of the       *)
(* missing file, raised before the loop) ever leaves main.                 *)
C3_OnlyInterruptEndsLoop ==
    exc \in {"none", "KeyboardInterrupt", "SystemExit"}

(* C4: in file mode the resolved list is the sequence of the file's lines  *)
(* that are non-empty after stripping, in file order.                      *)
C4_FileTargetsAreNonBlankLines ==
    (pc \in {"probe", "get", "sleep"} /\ argv = <<>>)
        => URL_LIST = NonBlankLines(file)

(* C5: the target list is non-empty whenever the monitor loop is running.  *)
C5_LoopListNonEmpty ==
    pc \in {"probe", "get", "sleep"} => Len(URL_LIST) > 0

(* C6: when the process has exited, the session's close() has been         *)
(* executed.                                                               *)
C6_ClosedAtExit ==
    pc = "exited" => closed

(* C7: after a keyboard interrupt main runs no further (no probe, no       *)
(* sleep), and the process exits with code 0 after logging the interrupt   *)
(* message followed by the exit message.                                   *)
C7_InterruptHandled ==
    /\ exc = "KeyboardInterrupt" => pc \in {"raised", "exited"}
    /\ (pc = "exited" /\ exc = "KeyboardInterrupt")
         => /\ Len(log) >= 2
            /\ log[Len(log) - 1] = LifeRec("interrupt")
            /\ log[Len(log)] = LifeRec("exiting")
            /\ exit_code = 0

C7_Witness ==
    /\ pc = "exited"
    /\ intr_at = "get"
    /\ i = 1

(* C8: every exit of the process has exit code 0, and the exit code is set *)
(* only at exit.                                                           *)
C8_ExitCodeZero ==
    /\ pc = "exited" => exit_code = 0
    /\ pc # "exited" => exit_code = -1

C8_Witness ==
    /\ pc = "exited"
    /\ exc = "RetryError"

(* C9: with no arguments and no urls.txt the loop is never entered: no get *)
(* is issued, no sleep is made, and the not-found error is logged before   *)
(* SystemExit leaves main.                                                 *)
C9_MissingFileNeverEntersLoop ==
    (argv = <<>> /\ ~file.exists) =>
        /\ pc \in {"resolve", "raised", "exited"}
        /\ probed = <<>>
        /\ cycle = 0
        /\ result = Pending
        /\ URL_LIST = <<>>
        /\ (pc # "resolve" /\ intr_at = "none")
             => /\ exc = "SystemExit"
                /\ Len(log) >= 2
                /\ log[2] = LifeRec("not_found")

C9_Witness ==
    /\ argv = <<>>
    /\ ~file.exists
    /\ pc = "exited"
    /\ exc = "SystemExit"

(* C10: a get whose every attempt was answered with a retryable status     *)
(* makes at most retry_total retries after the first attempt and surfaces  *)
(* a response or a connection error to main.                               *)
C10_RetryableSurfacesResponseOrConnError ==
    (/\ result # Pending
     /\ answers # <<>>
     /\ \A k \in 1..Len(answers) :
            answers[k].ok /\ answers[k].status \in RETRY_FOR_STATUS_CODES)
        => /\ Len(answers) <= retry_total + 1
           /\ result.kind \in {"response", "ConnectionError"}

(* The result records of the log, in order: lifecycle messages left out *)
IsProbeRec(r) == r.kind \in {"up", "not_ok", "conn_error", "might_be_down"}

ProbeRecords(l) == SelectSeq(l, IsProbeRec)

(* C11: the step that ends a get appends exactly one record, determined by *)
(* what the get obtained: "up" for a response with status 200, "not_ok"    *)
(* with the status for a response with another status, and "conn_error"    *)
(* whenever no response was obtained.                                      *)
C11_ThreeOutcomes ==
    [][(pc = "get" /\ result = Pending /\ result' # Pending)
        => LET url == URL_LIST[i + 1]
           IN  IF result'.kind = "response"
                 THEN IF result'.status = 200
                        THEN log' = Append(log, ProbeRec("up", i, url, 0))
                        ELSE log' = Append(log, ProbeRec("not_ok", i, url,
                                                         result'.status))
                 ELSE log' = Append(log, ProbeRec("conn_error", i, url, 0))]_vars

(* C12: the branch for a get that returned no response object is never     *)
(* taken: session.get never surfaces None and no "might be down" record    *)
(* is ever logged.                                                         *)
C12_MightBeDownUnreachable ==
    /\ result.kind # "None"
    /\ \A k \in 1..Len(log) : log[k].kind # "might_be_down"

C12_Witness ==
    /\ pc = "sleep"
    /\ result = Response(404)
    /\ Len(ProbeRecords(log)) = 2

C14_ListAndPolicyFixed ==
    [][pc # "resolve" => /\ URL_LIST' = URL_LIST
                         /\ retry_total' = retry_total
                         /\ argv' = argv]_vars

C14_Witness ==
    /\ cycle = 1
    /\ pc = "get"
    /\ i = 1
    /\ retry_total = 1
    /\ Len(answers) = 1

(* C15: the loop has no terminal state: unless a keyboard interrupt        *)
(* arrives, a get in progress is always eventually followed by the sleep   *)
(* of its cycle.                                                           *)
C15_ProbingLeadsToSleeping ==
    (pc = "get") ~> (pc = "sleep" \/ exc = "KeyboardInterrupt")

(* C16: as long as every get so far returned a response with status 200,   *)
(* the result records are, cycle after cycle, those of the first cycle:    *)
(* one "up" record per list entry with its index and string, in list       *)
(* order.                                                                  *)
C16_SameLogEveryCycle ==
    LET recs == ProbeRecords(log)
        n == Len(URL_LIST)
    IN  (/\ pc \in {"probe", "get", "sleep"}
         /\ \A k \in 1..Len(recs) : recs[k].kind = "up")
            => /\ \A k \in 1..Len(recs) :
                     /\ recs[k] = ProbeRec("up", (k - 1) % n,
                                           URL_LIST[((k - 1) % n) + 1], 0)
                     /\ recs[k] = recs[((k - 1) % n) + 1]
               /\ pc \in {"probe", "get"} => Len(recs) = n * cycle + i
               /\ pc = "sleep" => Len(recs) = n * (cycle + 1)

C16_Witness ==
    /\ pc = "sleep"
    /\ cycle = 1
    /\ Len(URL_LIST) = 2
    /\ Len(ProbeRecords(log)) = 4
    /\ \A k \in 1..Len(log) : IsProbeRec(log[k]) => log[k].kind = "up"

(* C17: a step that completes a probe (the loop goes on to the next index  *)
(* or to the sleep) appends exactly one result record, carrying the index  *)
(* and the string of the entry just probed; no other step appends or       *)
(* removes a result record.                                                *)
C17_OneRecordPerCompletedProbe ==
    [][IF pc = "get" /\ pc' \in {"probe", "sleep"}
         THEN /\ Len(log') = Len(log) + 1
              /\ SubSeq(log', 1, Len(log)) = log
              /\ IsProbeRec(log'[Len(log')])
              /\ log'[Len(log')].idx = i
              /\ log'[Len(log')].url = URL_LIST[i + 1]
         ELSE ProbeRecords(log') = ProbeRecords(log)]_vars

C17_Witness ==
    /\ pc = "probe"
    /\ i = 1
    /\ cycle = 1
    /\ Len(ProbeRecords(log)) = 3
    /\ log[Len(log)].kind = "not_ok"

(* C18: a new cycle starts only by a completed sleep, and each cycle has   *)
(* exactly one: the loop index goes back, and the first index is up again, *)
(* only in the step that ends a sleep; that step follows the probe of      *)
(* every index, whatever the results were, and with a non-empty list it    *)
(* leads to the probe of index 0, not to another sleep.                    *)
C18_OneSleepBetweenCycles ==
    [][/\ (\/ i' < i
           \/ (probed' # probed /\ probed' = <<>>)
           \/ (pc # "resolve" /\ pc' = "probe" /\ i' = 0))
          => (pc = "sleep" /\ cycle' = cycle + 1)
       /\ cycle' # cycle
          => /\ pc = "sleep"
             /\ cycle' = cycle + 1
             /\ probed = Indices(Len(URL_LIST))
             /\ probed' = <<>>
             /\ Len(URL_LIST) > 0 => (pc' = "probe" /\ i' = 0)]_vars

C18_Witness ==
    /\ cycle = 1
    /\ pc = "get"
    /\ i = 0
    /\ Len(URL_LIST) = 2
    /\ Len(ProbeRecords(log)) = 2
    /\ \A k \in 1..Len(log) : IsProbeRec(log[k]) => log[k].kind = "conn_error"

(* C19: while a get is in progress the session has not been closed and the *)
(* process has not exited.                                                 *)
C19_NoGetAfterClose ==
    pc = "get" => (~closed /\ exit_code = -1)

C19_Witness ==
    /\ pc = "get"
    /\ cycle = 1
    /\ ~closed

====
